---- MODULE Spec2Model ----
(***************************************************************************)
(* Model of src/tools.py: the speech synthesizer                           *)
(* (PodcastAudioGenerator) and the audio mixer (PodcastMixer).             *)
(*                                                                         *)
(* Strings are sequences of character codes (ASCII), so that str.strip(),  *)
(* the f-string that builds a clip's file name and the lexicographic       *)
(* order used by sorted() are computed the way Python computes them.       *)
(* Durations are integers, in milliseconds, as pydub's len() reports them. *)
(***************************************************************************)
EXTENDS Integers, Sequences, FiniteSets, TLC

(***************************************************************************)
(* Bounds of the model                                                     *)
(***************************************************************************)
\* longest dialogue of which every combination of segments is explored
MaxLines == 3
\* length of the long dialogues (their last index needs four digits)
LongLen == 1001
\* longest list of clips given to the mixer
MaxMixFiles == 3

(***************************************************************************)
(* Program constants                                                       *)
(***************************************************************************)
\* f"{index:03d}": minimum width of the index field
IndexWidth == 3
\* AudioSegment.silent(duration=200)
SilenceMs == 200
\* crossfade: int = 50
DefaultCrossfade == 50

None == "None"

(***************************************************************************)
(* Character codes and the strings of the program                          *)
(***************************************************************************)
ChSpace == 32
ChDot == 46
ChSlash == 47
ChZero == 48
ChUnderscore == 95

\* the characters str.strip() removes: space, \t, \n, \v, \f, \r
Whitespace == {32, 9, 10, 11, 12, 13}

\* "" (also the failure result of PodcastMixer._run)
EmptyStr == << >>

\* AudioConfig.format = "mp3"
AudioFormat == <<109, 112, 51>>

\* PodcastAudioGenerator.output_dir; the pipeline passes its segments
\* directory, here "seg"
GenOutputDir == <<115, 101, 103>>

\* speaker names "J" (Julia), "G" (Guido), "U" (never registered)
SpJ == <<74>>
SpG == <<71>>
SpU == <<85>>
\* a spoken text, "Hi"
TxtHi == <<72, 105>>

(***************************************************************************)
(* Python string operations                                                *)
(***************************************************************************)
RECURSIVE lstrip(_)
lstrip(s) ==
    IF s = << >> THEN << >>
    ELSE IF Head(s) \in Whitespace THEN lstrip(Tail(s))
    ELSE s

RECURSIVE rstrip(_)
rstrip(s) ==
    IF s = << >> THEN << >>
    ELSE IF s[Len(s)] \in Whitespace THEN rstrip(SubSeq(s, 1, Len(s) - 1))
    ELSE s

\* str.strip()
strip(s) == rstrip(lstrip(s))

\* decimal digits of a natural number, most significant first
RECURSIVE Digits(_)
Digits(n) ==
    IF n < 10 THEN <<ChZero + n>>
    ELSE Digits(n \div 10) \o <<ChZero + (n % 10)>>

\* zero padding on the left up to width w; longer strings are left alone
RECURSIVE ZeroPad(_, _)
ZeroPad(s, w) ==
    IF Len(s) >= w THEN s ELSE ZeroPad(<<ChZero>> \o s, w)

\* f"{index:03d}"
FormatIndex(index) == ZeroPad(Digits(index), IndexWidth)

\* f"{self.output_dir}/{index:03d}_{speaker}.{self.audio_config.format}"
Filename(index, speaker) ==
    GenOutputDir \o <<ChSlash>> \o FormatIndex(index) \o <<ChUnderscore>>
        \o speaker \o <<ChDot>> \o AudioFormat

\* a < b for Python strings: lexicographic by code point
RECURSIVE StrLess(_, _)
StrLess(a, b) ==
    IF a = << >> THEN b # << >>
    ELSE IF b = << >> THEN FALSE
    ELSE IF Head(a) # Head(b) THEN Head(a) < Head(b)
    ELSE StrLess(Tail(a), Tail(b))

\* insertion of x into the sorted list s, after the elements not above it
RECURSIVE SortedInsert(_, _)
SortedInsert(x, s) ==
    IF s = << >> THEN <<x>>
    ELSE IF StrLess(x, Head(s)) THEN <<x>> \o s
    ELSE <<Head(s)>> \o SortedInsert(x, Tail(s))

\* sorted(list of str): ascending, stable
RECURSIVE sorted(_)
sorted(s) ==
    IF s = << >> THEN << >>
    ELSE SortedInsert(s[Len(s)], sorted(SubSeq(s, 1, Len(s) - 1)))

\* dict.get(key, default)
get(d, key, default) == IF key \in DOMAIN d THEN d[key] ELSE default

(***************************************************************************)
(* Inputs                                                                  *)
(***************************************************************************)
\* VoiceConfig() (the defaults of the class) and a caller's own VoiceConfig
DefaultVoiceConfig == "VoiceConfig()"
VoiceConfigs == {None, "custom"}
VoiceIds == {"v1", "v2"}
\* the (voice_id, config) pairs add_voice is called with: one call that
\* leaves config to its default, one that passes a VoiceConfig
VoiceArgs ==
    {a \in VoiceIds \X VoiceConfigs : a \in {<<"v1", None>>, <<"v2", "custom">>}}
\* the names add_voice is called with
VoiceNames == {SpJ, SpG}

\* AudioConfig.normalize
AudioNormalize == TRUE

\* the dialogue segments (dicts) the batches are made of
SegJ == [speaker |-> <<ChSpace>> \o SpJ, text |-> TxtHi]
SegG == [speaker |-> SpG, text |-> TxtHi \o <<10>>]
SegU == [speaker |-> SpU, text |-> TxtHi]
SegBlankSpeaker == [speaker |-> <<ChSpace, 9>>, text |-> TxtHi]
SegNoText == [speaker |-> SpJ]
Segments == {SegJ, SegG, SegBlankSpeaker, SegNoText}

\* every dialogue of at most MaxLines segments
ShortDialogues ==
    UNION {[1..n -> Segments] : n \in 0..MaxLines}

\* a long dialogue: blank segments but for the lines of index 100 and
\* LongLen - 1, which speaker "J" speaks
LongDialogue ==
    [i \in 1..LongLen |->
        IF i - 1 \in {100, LongLen - 1} THEN SegJ ELSE SegBlankSpeaker]

\* valid line, unregistered speaker, valid line
SandwichDialogue == <<SegJ, SegU, SegG>>

Dialogues == ShortDialogues \cup {LongDialogue, SandwichDialogue}

(***************************************************************************)
(* State                                                                   *)
(***************************************************************************)
VARIABLES
    voice_configs,  \* PodcastAudioGenerator.voice_configs: name -> profile
    pc,             \* where PodcastAudioGenerator._run is
    dialogue,       \* _run's argument
    index,          \* the loop's index (0-based)
    audio_files,    \* _run's local list
    calls,          \* client.text_to_speech.convert calls made, in order
    log,            \* what happened to each line so far, in order
    result,         \* the list _run returned
    written,        \* the clip files the current _run call left on disk
    mix_pc,         \* where PodcastMixer._run is
    mix_files,      \* its argument audio_files
    crossfade,      \* its argument crossfade
    mixed,          \* its local: the running mix
    mix_i,          \* number of the entries of audio_files[1:] done
    mix_result,     \* the string it returned
    mix_events,     \* the failures that happened in the call, in order
    joins,          \* the appends with crossfade it performed, in order
    made_dir,       \* it created the output directory
    loaded,         \* the paths it loaded, in order
    exported        \* it wrote the output file

genvars == <<voice_configs, pc, dialogue, index, audio_files, calls, log, result,
             written>>

mixvars == <<mix_pc, mix_files, crossfade, mixed, mix_i, mix_result, mix_events,
             joins, made_dir, loaded, exported>>

vars == <<genvars, mixvars>>

\* a function with one more (or one replaced) key
DictSet(d, k, v) == [x \in DOMAIN d \cup {k} |-> IF x = k THEN v ELSE d[x]]

\* the empty dict
EmptyDict == [x \in {} |-> None]

GenInit ==
    /\ voice_configs = EmptyDict
    /\ pc = "idle"
    /\ dialogue = << >>
    /\ index = 0
    /\ audio_files = << >>
    /\ calls = << >>
    /\ log = << >>
    /\ result = << >>
    /\ written = {}

(***************************************************************************)
(* PodcastAudioGenerator                                                   *)
(***************************************************************************)
\* add_voice(name, voice_id, config=None)
add_voice(name, voice_id, config) ==
    /\ pc = "idle"
    /\ voice_configs' = DictSet(voice_configs, name,
            [voice_id |-> voice_id,
             config |-> IF config = None THEN DefaultVoiceConfig ELSE config])
    /\ UNCHANGED <<pc, dialogue, index, audio_files, calls, log, result, written>>
    /\ UNCHANGED mixvars

\* segment.get('speaker', '').strip() and segment.get('text', '').strip()
SegSpeaker(segment) == strip(get(segment, "speaker", EmptyStr))
SegText(segment) == strip(get(segment, "text", EmptyStr))

\* the segment the loop is at
CurSegment == dialogue[index + 1]

InLoop == pc = "running" /\ index < Len(dialogue)

\* _run is called; os.makedirs succeeds and the loop begins
run_start(d) ==
    /\ pc = "idle"
    /\ pc' = "running"
    /\ dialogue' = d
    /\ index' = 0
    /\ audio_files' = << >>
    /\ calls' = << >>
    /\ log' = << >>
    /\ result' = << >>
    /\ written' = {}
    /\ UNCHANGED voice_configs
    /\ UNCHANGED mixvars

\* _run is called; os.makedirs raises, outside any try
run_makedirs_raises(d) ==
    /\ pc = "idle"
    /\ pc' = "raised"
    /\ dialogue' = d
    /\ index' = 0
    /\ audio_files' = << >>
    /\ calls' = << >>
    /\ log' = << >>
    /\ result' = << >>
    /\ written' = {}
    /\ UNCHANGED voice_configs
    /\ UNCHANGED mixvars

\* the line is over: continue with the next
NextLine(outcome) ==
    /\ index' = index + 1
    /\ log' = Append(log, outcome)
    /\ UNCHANGED <<voice_configs, pc, dialogue, result>>
    /\ UNCHANGED mixvars

\* if not speaker or not text: continue
run_skip_missing ==
    /\ InLoop
    /\ SegSpeaker(CurSegment) = EmptyStr \/ SegText(CurSegment) = EmptyStr
    /\ NextLine("skipped_missing")
    /\ UNCHANGED <<audio_files, calls, written>>

\* run_skip_unknown with break in the place of continue
run_skip_unknown_break ==
    /\ InLoop
    /\ SegSpeaker(CurSegment) # EmptyStr /\ SegText(CurSegment) # EmptyStr
    /\ SegSpeaker(CurSegment) \notin DOMAIN voice_configs
    /\ index' = Len(dialogue)
    /\ log' = Append(log, "skipped_unknown")
    /\ UNCHANGED <<voice_configs, pc, dialogue, result, audio_files, calls,
                   written>>
    /\ UNCHANGED mixvars

\* run_skip_unknown with a fallback that registers the unknown speaker
run_skip_unknown_registers ==
    /\ InLoop
    /\ SegSpeaker(CurSegment) # EmptyStr /\ SegText(CurSegment) # EmptyStr
    /\ SegSpeaker(CurSegment) \notin DOMAIN voice_configs
    /\ voice_configs' = DictSet(voice_configs, SegSpeaker(CurSegment),
            [voice_id |-> "v1", config |-> DefaultVoiceConfig])
    /\ index' = index + 1
    /\ log' = Append(log, "skipped_unknown")
    /\ UNCHANGED <<pc, dialogue, result, audio_files, calls, written>>
    /\ UNCHANGED mixvars

\* if not voice_config: continue
run_skip_unknown ==
    /\ InLoop
    /\ SegSpeaker(CurSegment) # EmptyStr /\ SegText(CurSegment) # EmptyStr
    /\ SegSpeaker(CurSegment) \notin DOMAIN voice_configs
    /\ NextLine("skipped_unknown")
    /\ UNCHANGED <<audio_files, calls, written>>

\* the line reaches the try block
Synthesizable ==
    /\ InLoop
    /\ SegSpeaker(CurSegment) # EmptyStr /\ SegText(CurSegment) # EmptyStr
    /\ SegSpeaker(CurSegment) \in DOMAIN voice_configs

\* the request of client.text_to_speech.convert for the line
ConvertCall ==
    [index |-> index,
     text |-> SegText(CurSegment),
     voice_id |-> voice_configs[SegSpeaker(CurSegment)].voice_id]

\* run_convert_fails with the call outside the try block
run_convert_fails_raises ==
    /\ Synthesizable
    /\ calls' = Append(calls, ConvertCall)
    /\ log' = Append(log, "convert_failed")
    /\ pc' = "raised"
    /\ UNCHANGED <<voice_configs, dialogue, index, result, audio_files, written>>
    /\ UNCHANGED mixvars

\* run_convert_fails with a retry: the same line is tried again
run_convert_fails_retries ==
    /\ Synthesizable
    /\ calls' = Append(calls, ConvertCall)
    /\ UNCHANGED <<voice_configs, pc, dialogue, index, log, result, audio_files,
                   written>>
    /\ UNCHANGED mixvars

\* convert (or reading its stream) raises: except, continue
run_convert_fails ==
    /\ Synthesizable
    /\ calls' = Append(calls, ConvertCall)
    /\ NextLine("convert_failed")
    /\ UNCHANGED <<audio_files, written>>

\* open of the clip raises, and creates no file: except, continue
run_write_fails ==
    /\ Synthesizable
    /\ calls' = Append(calls, ConvertCall)
    /\ NextLine("write_failed")
    /\ UNCHANGED <<audio_files, written>>

\* out.write raises after open created the file: except, continue
run_write_partial ==
    /\ Synthesizable
    /\ calls' = Append(calls, ConvertCall)
    /\ written' = written \cup {Filename(index, SegSpeaker(CurSegment))}
    /\ NextLine("write_failed")
    /\ UNCHANGED audio_files

\* AudioSegment.from_file, normalize or export raises: except, continue
run_normalize_fails ==
    /\ Synthesizable
    /\ AudioNormalize
    /\ calls' = Append(calls, ConvertCall)
    /\ written' = written \cup {Filename(index, SegSpeaker(CurSegment))}
    /\ NextLine("normalize_failed")
    /\ UNCHANGED audio_files

\* every step of the line succeeds: audio_files.append(filename)
run_line_ok ==
    /\ Synthesizable
    /\ calls' = Append(calls, ConvertCall)
    /\ audio_files' = Append(audio_files, Filename(index, SegSpeaker(CurSegment)))
    /\ written' = written \cup {Filename(index, SegSpeaker(CurSegment))}
    /\ NextLine("ok")

\* return sorted(audio_files)
run_return ==
    /\ pc = "running"
    /\ index = Len(dialogue)
    /\ pc' = "done"
    /\ result' = sorted(audio_files)
    /\ UNCHANGED <<voice_configs, dialogue, index, audio_files, calls, log,
                   written>>
    /\ UNCHANGED mixvars

\* the caller has the outcome of the call; the tool is ready for the next
run_finished ==
    /\ pc \in {"done", "raised"}
    /\ pc' = "idle"
    /\ dialogue' = << >>
    /\ index' = 0
    /\ audio_files' = << >>
    /\ calls' = << >>
    /\ log' = << >>
    /\ result' = << >>
    /\ written' = {}
    /\ UNCHANGED voice_configs
    /\ UNCHANGED mixvars

GenNext ==
    \/ \E name \in VoiceNames, a \in VoiceArgs : add_voice(name, a[1], a[2])
    \/ \E d \in Dialogues : run_start(d)
    \/ \E d \in Dialogues : run_makedirs_raises(d)
    \/ run_skip_missing
    \/ run_skip_unknown
    \/ run_convert_fails
    \/ run_write_fails
    \/ run_write_partial
    \/ run_normalize_fails
    \/ run_line_ok
    \/ run_return
    \/ run_finished


(***************************************************************************)
(* PodcastMixer: its inputs, and pydub's AudioSegment                      *)
(***************************************************************************)
\* PodcastMixer.output_dir; the pipeline passes its podcast directory,
\* here "mix"
MixOutputDir == <<109, 105, 120>>

\* "podcast_final.mp3"
FinalName ==
    <<112, 111, 100, 99, 97, 115, 116, 95, 102, 105, 110, 97, 108, 46, 109, 112, 51>>

\* os.path.join(a, b)
path_join(a, b) ==
    IF b # << >> /\ Head(b) = ChSlash THEN b
    ELSE IF a = << >> \/ a[Len(a)] = ChSlash THEN a \o b
    ELSE a \o <<ChSlash>> \o b

\* the clips on disk, and len(AudioSegment.from_file(path)) of each
ClipLong == Filename(0, SpJ)
ClipShort == Filename(1, SpG)
ClipTiny == Filename(2, SpJ)
ClipPaths == {ClipLong, ClipShort, ClipTiny}
ClipDuration(path) ==
    IF path = ClipLong THEN 1000
    ELSE IF path = ClipShort THEN 100
    ELSE 30

\* the lists of paths the mixer is called with, [] among them
MixInputs == UNION {[1..n -> ClipPaths] : n \in 0..MaxMixFiles}

\* the crossfade values (milliseconds) the mixer is called with
Crossfades == {0, DefaultCrossfade, 250}

\* an AudioSegment: what it is made of, in order, and len() of it
Segment(parts, len) == [parts |-> parts, len |-> len]

\* AudioSegment.from_file(path), when it succeeds
from_file(path) ==
    Segment(<<[kind |-> "clip", path |-> path]>>, ClipDuration(path))

\* AudioSegment.silent(duration)
silent(duration) ==
    Segment(<<[kind |-> "silence", path |-> EmptyStr]>>, duration)

\* seg1.append(seg2, crossfade) raises ValueError: the crossfade is longer
\* than one of the two segments
append_raises(seg1, seg2, xf) ==
    xf # 0 /\ (xf > seg1.len \/ xf > seg2.len)

\* seg1.append(seg2, crossfade), when it does not raise: the last xf ms of
\* seg1 and the first xf ms of seg2 overlap
append(seg1, seg2, xf) ==
    Segment(seg1.parts \o seg2.parts, seg1.len + seg2.len - xf)

\* seg1 + seg2: seg1.append(seg2, crossfade=0)
plus(seg1, seg2) == append(seg1, seg2, 0)

\* no AudioSegment yet
NoSegment == Segment(<< >>, 0)

MixInit ==
    /\ mix_pc = "idle"
    /\ mix_files = << >>
    /\ crossfade = DefaultCrossfade
    /\ mixed = NoSegment
    /\ mix_i = 0
    /\ mix_result = EmptyStr
    /\ mix_events = << >>
    /\ joins = << >>
    /\ made_dir = FALSE
    /\ loaded = << >>
    /\ exported = FALSE

(***************************************************************************)
(* PodcastMixer._run                                                       *)
(***************************************************************************)
\* the call's arguments are bound; nothing has been done yet
MixCalled(files, xf, at) ==
    /\ mix_pc = "idle"
    /\ mix_pc' = at
    /\ mix_files' = files
    /\ crossfade' = xf
    /\ mixed' = NoSegment
    /\ mix_i' = 0
    /\ mix_result' = EmptyStr
    /\ mix_events' = << >>
    /\ joins' = << >>
    /\ made_dir' = FALSE
    /\ loaded' = << >>
    /\ exported' = FALSE
    /\ UNCHANGED genvars

\* mix_raise_empty with the check after os.makedirs
mix_raise_empty_after_makedirs(files, xf) ==
    /\ files = << >>
    /\ mix_pc = "idle"
    /\ mix_pc' = "raised"
    /\ mix_files' = files
    /\ crossfade' = xf
    /\ made_dir' = TRUE
    /\ UNCHANGED <<mixed, mix_i, mix_result, mix_events, joins, loaded, exported>>
    /\ UNCHANGED genvars

\* if not audio_files: raise ValueError(...)
mix_raise_empty(files, xf) ==
    /\ files = << >>
    /\ MixCalled(files, xf, "raised")

\* audio_files is not empty: the try block is entered
mix_start(files, xf) ==
    /\ files # << >>
    /\ MixCalled(files, xf, "makedirs")

\* except Exception: return ""
MixExcept(event) ==
    /\ mix_pc' = "returned"
    /\ mix_result' = EmptyStr
    /\ mix_events' = Append(mix_events, event)
    /\ UNCHANGED <<mix_files, crossfade, genvars>>

\* os.makedirs(self.output_dir, exist_ok=True)
mix_makedirs ==
    /\ mix_pc = "makedirs"
    /\ mix_pc' = "load_first"
    /\ made_dir' = TRUE
    /\ UNCHANGED <<mix_files, crossfade, mixed, mix_i, mix_result, mix_events,
                   joins, loaded, exported, genvars>>

\* os.makedirs raises
mix_makedirs_fails ==
    /\ mix_pc = "makedirs"
    /\ MixExcept("makedirs_failed")
    /\ UNCHANGED <<mixed, mix_i, joins, made_dir, loaded, exported>>

\* mixed = AudioSegment.from_file(audio_files[0])
mix_load_first ==
    /\ mix_pc = "load_first"
    /\ mix_pc' = "loop"
    /\ mixed' = from_file(mix_files[1])
    /\ loaded' = Append(loaded, mix_files[1])
    /\ UNCHANGED <<mix_files, crossfade, mix_i, mix_result, mix_events, joins,
                   made_dir, exported, genvars>>

\* AudioSegment.from_file(audio_files[0]) raises
mix_load_first_fails ==
    /\ mix_pc = "load_first"
    /\ MixExcept("load_failed")
    /\ UNCHANGED <<mixed, mix_i, joins, made_dir, loaded, exported>>

\* the loop over audio_files[1:] has an entry left
InMixLoop == mix_pc = "loop" /\ mix_i < Len(mix_files) - 1

\* audio_files[1:][mix_i]
NextFile == mix_files[mix_i + 2]

\* NextSegment without the silence
NextSegment_no_silence == from_file(NextFile)

\* silence + AudioSegment.from_file(audio_file)
NextSegment == plus(silent(SilenceMs), from_file(NextFile))

\* mix_join with the running mix appended to the new segment
mix_join_prepends ==
    /\ InMixLoop
    /\ ~append_raises(mixed, NextSegment, crossfade)
    /\ mixed' = append(NextSegment, mixed, crossfade)
    /\ loaded' = Append(loaded, NextFile)
    /\ joins' = Append(joins,
            [crossfade |-> crossfade,
             left |-> ClipDuration(mix_files[mix_i + 1]),
             right |-> ClipDuration(NextFile)])
    /\ mix_i' = mix_i + 1
    /\ UNCHANGED <<mix_pc, mix_files, crossfade, mix_result, mix_events,
                   made_dir, exported, genvars>>

\* one pass of the loop: load, prepend the silence, append with crossfade
mix_join ==
    /\ InMixLoop
    /\ ~append_raises(mixed, NextSegment, crossfade)
    /\ mixed' = append(mixed, NextSegment, crossfade)
    /\ loaded' = Append(loaded, NextFile)
    /\ joins' = Append(joins,
            [crossfade |-> crossfade,
             left |-> ClipDuration(mix_files[mix_i + 1]),
             right |-> ClipDuration(NextFile)])
    /\ mix_i' = mix_i + 1
    /\ UNCHANGED <<mix_pc, mix_files, crossfade, mix_result, mix_events,
                   made_dir, exported, genvars>>

\* mix_load_next_fails with the load outside the try block
mix_load_next_fails_raises ==
    /\ InMixLoop
    /\ mix_pc' = "raised"
    /\ mix_events' = Append(mix_events, "load_failed")
    /\ UNCHANGED <<mix_files, crossfade, mix_result, mixed, mix_i, joins,
                   made_dir, loaded, exported, genvars>>

\* AudioSegment.from_file(audio_file) raises in the loop
mix_load_next_fails ==
    /\ InMixLoop
    /\ MixExcept("load_failed")
    /\ UNCHANGED <<mixed, mix_i, joins, made_dir, loaded, exported>>

\* mixed.append raises: the crossfade is longer than a segment
mix_append_fails ==
    /\ InMixLoop
    /\ append_raises(mixed, NextSegment, crossfade)
    /\ loaded' = Append(loaded, NextFile)
    /\ MixExcept("append_failed")
    /\ UNCHANGED <<mixed, mix_i, joins, made_dir, exported>>

\* mixed.export(output_file, ...); return output_file
mix_export ==
    /\ mix_pc = "loop"
    /\ mix_i = Len(mix_files) - 1
    /\ mix_pc' = "returned"
    /\ exported' = TRUE
    /\ mix_result' = path_join(MixOutputDir, FinalName)
    /\ UNCHANGED <<mix_files, crossfade, mixed, mix_i, mix_events, joins,
                   made_dir, loaded, genvars>>

\* mix_export_fails with the return of output_file after the try block
mix_export_fails_returns_path ==
    /\ mix_pc = "loop"
    /\ mix_i = Len(mix_files) - 1
    /\ mix_pc' = "returned"
    /\ mix_result' = path_join(MixOutputDir, FinalName)
    /\ mix_events' = Append(mix_events, "export_failed")
    /\ UNCHANGED <<mix_files, crossfade, mixed, mix_i, joins, made_dir, loaded,
                   exported, genvars>>

\* mixed.export raises
mix_export_fails ==
    /\ mix_pc = "loop"
    /\ mix_i = Len(mix_files) - 1
    /\ MixExcept("export_failed")
    /\ UNCHANGED <<mixed, mix_i, joins, made_dir, loaded, exported>>

\* the caller has the outcome of the call; the tool is ready for the next
mix_finished ==
    /\ mix_pc \in {"returned", "raised"}
    /\ mix_pc' = "idle"
    /\ mix_files' = << >>
    /\ crossfade' = DefaultCrossfade
    /\ mixed' = NoSegment
    /\ mix_i' = 0
    /\ mix_result' = EmptyStr
    /\ mix_events' = << >>
    /\ joins' = << >>
    /\ made_dir' = FALSE
    /\ loaded' = << >>
    /\ exported' = FALSE
    /\ UNCHANGED genvars

MixNext ==
    \/ \E xf \in Crossfades : mix_raise_empty(<< >>, xf)
    \/ \E files \in MixInputs, xf \in Crossfades : mix_start(files, xf)
    \/ mix_makedirs
    \/ mix_makedirs_fails
    \/ mix_load_first
    \/ mix_load_first_fails
    \/ mix_join
    \/ mix_load_next_fails
    \/ mix_append_fails
    \/ mix_export
    \/ mix_export_fails
    \/ mix_finished

(***************************************************************************)
(* Specifications                                                          *)
(***************************************************************************)
Init == GenInit /\ MixInit

\* the speech synthesizer: add_voice calls and synthesis batches
Next == GenNext

Spec == Init /\ [][Next]_vars

\* the audio mixer: mix calls
MixSpec == Init /\ [][MixNext]_vars

(***************************************************************************)
(* Vocabulary of the properties                                            *)
(***************************************************************************)
\* the line is skipped for a missing speaker or text
IsBlankLine(segment) ==
    SegSpeaker(segment) = EmptyStr \/ SegText(segment) = EmptyStr

\* the outcomes of a line that entered the try block and failed in it
FailureOutcomes == {"convert_failed", "write_failed", "normalize_failed"}

\* the lines (1-based) that completed all their steps
OkLines == {i \in 1..Len(log) : log[i] = "ok"}

\* the path of line i (1-based) of the dialogue
LinePath(i) == Filename(i - 1, SegSpeaker(dialogue[i]))

\* the elements of a set of numbers, in increasing order
Ascending(S) ==
    [k \in 1..Cardinality(S) |->
        CHOOSE i \in S : Cardinality({j \in S : j < i}) = k - 1]

\* the paths of the lines that completed all their steps, in input order
OkPathsInInputOrder ==
    [k \in 1..Cardinality(OkLines) |-> LinePath(Ascending(OkLines)[k])]

\* the value of a string of decimal digits
RECURSIVE ParseNat(_, _)
ParseNat(s, acc) ==
    IF s = << >> \/ Head(s) < ChZero \/ Head(s) > ChZero + 9 THEN acc
    ELSE ParseNat(Tail(s), 10 * acc + (Head(s) - ChZero))

\* the line index a clip's path carries: the digits after "{output_dir}/"
PathIndex(path) ==
    ParseNat(SubSeq(path, Len(GenOutputDir) + 2, Len(path)), 0)

\* the calls of the provider made for the line of index i (0-based)
CallsFor(i) == {k \in 1..Len(calls) : calls[k].index = i}

(***************************************************************************)
(* Properties of PodcastAudioGenerator._run                                *)
(***************************************************************************)
\* C1 (as claimed): when a batch returns, every line was looked at, a line
\* whose speaker or text is empty after trimming has no path in the
\* returned list, and the returned list is the paths of the successfully
\* synthesized lines in the order of their lines in the input.
C1_BlankSkippedOrderKept ==
    pc = "done" =>
        /\ Len(log) = Len(dialogue)
        /\ \A i \in 1..Len(dialogue) :
                IsBlankLine(dialogue[i]) =>
                    /\ log[i] = "skipped_missing"
                    /\ \A k \in 1..Len(result) : PathIndex(result[k]) # i - 1
        /\ result = OkPathsInInputOrder

\* C2: a line whose trimmed speaker is not registered is skipped without a
\* provider call, the loop goes on to the next line and only a failing
\* os.makedirs, before the first line, makes the call raise; the batch
\* valid, unregistered, valid returns exactly the paths of its first and
\* third lines, with the indices 000 and 002.
C2_UnknownSpeakerSkipped ==
    /\ pc = "raised" => index = 0 /\ log = << >>
    /\ pc = "running" => Len(log) = index
    /\ (pc = "running" /\ index > 0) =>
            LET segment == dialogue[index] IN
            (~IsBlankLine(segment)
                    /\ SegSpeaker(segment) \notin DOMAIN voice_configs) =>
                /\ log[index] = "skipped_unknown"
                /\ CallsFor(index - 1) = {}
    /\ pc = "done" =>
        /\ Len(log) = Len(dialogue)
        /\ \A i \in 1..Len(log) :
                log[i] = "skipped_unknown" => CallsFor(i - 1) = {}
        /\ (Len(log) = 3 /\ log = <<"ok", "skipped_unknown", "ok">>) =>
                /\ result = <<LinePath(1), LinePath(3)>>
                /\ PathIndex(result[1]) = 0
                /\ PathIndex(result[2]) = 2
                /\ FormatIndex(0) = <<ChZero, ChZero, ChZero>>
                /\ FormatIndex(2) = <<ChZero, ChZero, ChZero + 2>>
                /\ Len(calls) = 2

\* C2's case: the batch valid, unregistered, valid has returned two paths
C2_Witness ==
    /\ pc = "done"
    /\ dialogue = SandwichDialogue
    /\ log = <<"ok", "skipped_unknown", "ok">>
    /\ Len(result) = 2

\* C3: a failure of the provider call, of the write or of the normalization
\* of a line is not raised to the caller, the lines after it are processed,
\* and the returned list holds the paths of exactly the lines that
\* completed all their steps.
C3_LineFailureNeverAborts ==
    /\ pc = "raised" => calls = << >> /\ log = << >>
    /\ (pc = "running" /\ index > 0 /\ Len(log) >= index) =>
            (log[index] \in FailureOutcomes => CallsFor(index - 1) # {})
    /\ pc = "done" =>
        /\ Len(log) = Len(dialogue)
        /\ {result[k] : k \in 1..Len(result)} = {LinePath(i) : i \in OkLines}
        /\ Len(result) = Cardinality(OkLines)

\* C3's case: a line failed, a later line succeeded, the batch returned
C3_Witness ==
    /\ pc = "done"
    /\ \E i, j \in 1..Len(log) :
            i < j /\ log[i] \in FailureOutcomes /\ log[j] = "ok"
    /\ Len(result) >= 1

\* C4 (as claimed): the returned list, sorted lexicographically, is in
\* increasing order of line index.
C4_SortedIsIndexOrder ==
    pc = "done" =>
        \A a, b \in 1..Len(result) :
            a < b => PathIndex(result[a]) < PathIndex(result[b])

\* C11 (as claimed): when a batch returns, the clip files it left in the
\* output directory are exactly the returned paths: no file is left for a
\* line that was skipped or that failed.
C11_FilesAreReturnedPaths ==
    pc = "done" => written = {result[k] : k \in 1..Len(result)}

\* the outcomes of a line for which the provider is called
CalledOutcomes == FailureOutcomes \cup {"ok"}

\* C12: the provider is called for one line at a time, in increasing order
\* of line index, once for a line that reaches the try block (a failed
\* call is not retried) and never for a skipped line; when a call for a
\* line exists, that line is over, and the loop is at a later line.
C12_ProviderOneLineAtATime ==
    /\ \A k \in 1..Len(calls) :
            /\ calls[k].index < Len(log)
            /\ calls[k].index < index
            /\ log[calls[k].index + 1] \in CalledOutcomes
            /\ k > 1 => calls[k - 1].index < calls[k].index
    /\ (pc = "running" /\ index > 0 /\ Len(log) >= index) =>
            IF log[index] \in CalledOutcomes
            THEN Cardinality(CallsFor(index - 1)) = 1
            ELSE CallsFor(index - 1) = {}
    /\ pc = "done" =>
            Len(calls) = Cardinality({i \in 1..Len(log) : log[i] \in CalledOutcomes})

\* C12's case: a batch with a skipped line, a failed call and a later call
C12_Witness ==
    /\ pc = "done"
    /\ Len(calls) >= 2
    /\ \E i, j, k \in 1..Len(log) :
            /\ i < j
            /\ log[i] = "convert_failed"
            /\ log[j] \in CalledOutcomes
            /\ log[k] \in {"skipped_missing", "skipped_unknown"}

(***************************************************************************)
(* Properties of PodcastAudioGenerator.voice_configs                       *)
(***************************************************************************)
\* C13 (as claimed): once a name is registered, the voice id and the
\* parameters registered for it never change, whatever add_voice calls
\* and batches follow.
C13_RegistryNeverChanges ==
    [][\A name \in DOMAIN voice_configs :
            /\ name \in DOMAIN voice_configs'
            /\ voice_configs'[name] = voice_configs[name]]_vars

\* C13 (amended): a registered name stays registered, and no step of a
\* synthesis batch changes the registry: only an add_voice call, made
\* while no batch runs, changes the voice registered for a name.
C13_OnlyAddVoiceChangesRegistry ==
    [][/\ \A name \in DOMAIN voice_configs : name \in DOMAIN voice_configs'
       /\ voice_configs' # voice_configs => (pc = "idle" /\ pc' = "idle")]_vars

\* C13's case: a batch has called the provider with a registered voice
C13_Witness ==
    /\ pc = "done"
    /\ SpJ \in DOMAIN voice_configs
    /\ voice_configs[SpJ].config = "custom"
    /\ \E k \in 1..Len(calls) : calls[k].voice_id = voice_configs[SpJ].voice_id

(***************************************************************************)
(* Properties of PodcastMixer._run                                         *)
(***************************************************************************)
IsClip(part) == part.kind = "clip"

\* the paths of the clips a segment is made of, in order
ClipsOf(segment) ==
    LET clips == SelectSeq(segment.parts, IsClip)
    IN  [k \in 1..Len(clips) |-> clips[k].path]

RECURSIVE SumDurations(_)
SumDurations(files) ==
    IF files = << >> THEN 0
    ELSE ClipDuration(Head(files)) + SumDurations(Tail(files))

MixSucceeded == mix_pc = "returned" /\ mix_result # EmptyStr

Min(a, b) == IF a <= b THEN a ELSE b

\* C5: the final mix of a successful call is made of the input clips, each
\* once, in the order of the input list.
C5_MixKeepsInputOrder ==
    MixSucceeded =>
        /\ ClipsOf(mixed) = mix_files
        /\ loaded = mix_files

\* C5's case: three different clips were mixed
C5_Witness ==
    /\ MixSucceeded
    /\ mix_files = <<ClipTiny, ClipLong, ClipShort>>

\* C6: a call with an empty list raises, and has then created no
\* directory, loaded no clip and written no file.
C6_EmptyListRaisesBeforeWork ==
    /\ (mix_pc # "idle" /\ mix_files = << >>) => mix_pc = "raised"
    /\ mix_pc = "raised" =>
            ~made_dir /\ loaded = << >> /\ ~exported /\ mixed = NoSegment

\* C6's case: the mixer was called with [] and raised
C6_Witness == mix_pc = "raised" /\ mix_files = << >>

\* C7 (as claimed): every batch-level mix error, the empty list included,
\* ends the call with the result "" and not with a raised fault.
C7_EveryErrorIsEmptyString ==
    (mix_pc \in {"returned", "raised"}
            /\ (mix_files = << >> \/ mix_events # << >>)) =>
        mix_pc = "returned" /\ mix_result = EmptyStr

\* C7 (amended): a load or export failure on any clip ends the call with
\* the result "" and not with a raised fault; the empty list is signalled
\* by a raised ValueError.
C7_LoadExportErrorIsEmptyString ==
    /\ \A k \in 1..Len(mix_events) :
            mix_events[k] \in {"load_failed", "export_failed"} =>
                mix_pc = "returned" /\ mix_result = EmptyStr
    /\ mix_pc = "raised" => mix_files = << >> /\ mix_events = << >>

\* C7's case: the load of a clip after the first failed
C7_Witness ==
    /\ mix_pc = "returned"
    /\ mix_events = <<"load_failed">>
    /\ loaded # << >>

\* C8: a call with a non-empty list never raises; it returns "" if and
\* only if os.makedirs, a load, an append or the export failed, and
\* otherwise {output_dir}/podcast_final.mp3.
C8_NonEmptyNeverPropagates ==
    mix_files # << >> =>
        /\ mix_pc # "raised"
        /\ mix_pc = "returned" =>
            /\ (mix_events # << >>) <=> (mix_result = EmptyStr)
            /\ mix_events = << >> =>
                /\ mix_result = MixOutputDir \o <<ChSlash>> \o FinalName
                /\ exported

\* C8's case: an append raised (the crossfade is longer than a segment)
C8_Witness ==
    /\ mix_pc = "returned"
    /\ mix_events = <<"append_failed">>
    /\ mix_result = EmptyStr

\* C9: the duration of a successful mix of n clips is the sum of the clips'
\* durations + (n-1)*200 - (n-1)*crossfade; for three clips and the default
\* crossfade, the sum + 400 - 100.
C9_MixDuration ==
    MixSucceeded =>
        LET n == Len(mix_files) IN
        /\ mixed.len = SumDurations(mix_files) + (n - 1) * 200 - (n - 1) * crossfade
        /\ (n = 3 /\ crossfade = 50) =>
                mixed.len = SumDurations(mix_files) + 400 - 100

\* C9's case: three clips were mixed with the default crossfade
C9_Witness ==
    /\ MixSucceeded
    /\ Len(mix_files) = 3
    /\ crossfade = DefaultCrossfade
    /\ Len(joins) = 2

\* C10 (as claimed): the crossfade of every join performed is at most the
\* duration of the shorter of the two adjacent clips.
C10_CrossfadeWithinShorterClip ==
    \A k \in 1..Len(joins) :
        joins[k].crossfade <= Min(joins[k].left, joins[k].right)

====
